---------------------------- MODULE Spec2Model ----------------------------
(***************************************************************************)
(* A model of pyrvt/motions.py: the piecewise geometric spreading, the     *)
(* point-source motion (SourceTheoryMotion), the oscillator response of a  *)
(* motion (RvtMotion.compute_osc_resp) and the constructor of the          *)
(* response-spectrum compatible motion (CompatibleRvtMotion.__init__).     *)
(*                                                                         *)
(* Numbers.  TLA+ has integers only.  A real quantity of the program is    *)
(* kept either exactly (as an integer, or as a fraction <<num, den>> in    *)
(* lowest terms) or in fixed point, rounded down; each definition says     *)
(* which.  None stands for Python's None where a string or an              *)
(* object is expected, NoneNum where a number is, NoRegion for a region,    *)
(* NoArray for an array.                                                   *)
(***************************************************************************)
EXTENDS Integers, Sequences, FiniteSets, TLC

None == "None"
NoneNum == 0 - 1
NoRegion == <<"None">>
NoArray == << >>

\* Python's truth value of a number or None (`if limit`, `if stress_drop`).
Truthy(x) == x # NoneNum /\ x # 0

Min(a, b) == IF a <= b THEN a ELSE b
Max(a, b) == IF a >= b THEN a ELSE b
Abs(a) == IF a < 0 THEN -a ELSE a

RECURSIVE Gcd(_, _)
Gcd(a, b) == IF b = 0 THEN a ELSE Gcd(b, a % b)

RECURSIVE Pow(_, _)
Pow(b, e) == IF e = 0 THEN 1 ELSE b * Pow(b, e - 1)

\* A positive fraction in lowest terms.
Frac(n, d) == LET g == Gcd(n, d) IN <<n \div g, d \div g>>
FracMul(p, q) == Frac(p[1] * q[1], p[2] * q[2])
FracLeq(p, q) == p[1] * q[2] <= q[1] * p[2]
One == <<1, 1>>

(***************************************************************************)
(* compute_geometric_spreading(dist, coefs).                               *)
(*                                                                         *)
(* A segment is <<slope2, limit>>: slope2 is twice the slope of the source *)
(* (the source's slopes are multiples of 1/2), limit a distance or None.   *)
(* The value gs is kept exactly as its square, the fraction gs^2: each     *)
(* factor (initial / _dist) ** slope squared is (initial / _dist) ^ slope2.*)
(***************************************************************************)

\* ((initial / _dist) ** slope) squared.
SegmentFactorSqr(initial, _dist, slope2) ==
    IF slope2 >= 0
    THEN Frac(Pow(initial, slope2), Pow(_dist, slope2))
    ELSE Frac(Pow(_dist, -slope2), Pow(initial, -slope2))

\* The for loop from segment k on, with the running values initial and gs.
RECURSIVE GsLoop(_, _, _, _, _)
GsLoop(dist, coefs, k, initial, gs) ==
    IF k > Len(coefs)
    THEN [status |-> "returned", gs_sqr |-> gs]
    ELSE LET slope2 == coefs[k][1]
             limit  == coefs[k][2]
             _dist  == IF Truthy(limit) THEN Min(dist, limit) ELSE dist
         IN  IF _dist = 0
             THEN [status |-> "ZeroDivisionError", gs_sqr |-> None]
             ELSE LET gs1 == FracMul(gs, SegmentFactorSqr(initial, _dist, slope2))
                  IN  IF _dist < dist
                      THEN GsLoop(dist, coefs, k + 1, _dist, gs1)
                      ELSE [status |-> "returned", gs_sqr |-> gs1]

\* The validation the specification describes and the code does not have.
GsWithValidation(dist, coefs) ==
    IF \/ coefs = <<>>
       \/ \E k \in 1..(Len(coefs) - 1) : coefs[k][2] = NoneNum
    THEN [status |-> "InvalidSegments", gs_sqr |-> None]
    ELSE GsLoop(dist, coefs, 1, 1, One)

compute_geometric_spreading(dist, coefs) == GsLoop(dist, coefs, 1, 1, One)

(***************************************************************************)
(* The regional constants of SourceTheoryMotion.__init__.  Reals are in    *)
(* thousandths (shear_velocity 3.5 is 3500); the geometric spreading       *)
(* segments are as above, (-1, 40) being <<-2, 40>>.                       *)
(***************************************************************************)
WusTable ==
    [shear_velocity |-> 3500, path_atten_coeff |-> 180000,
     path_atten_power |-> 450, density |-> 2800, site_atten |-> 40,
     geometric_spreading |-> << <<-2, 40>>, <<-1, NoneNum>> >>,
     default_stress_drop |-> 100, site_amp |-> "campbell2003_wus"]

CeusTable ==
    [shear_velocity |-> 3600, path_atten_coeff |-> 680000,
     path_atten_power |-> 360, density |-> 2800, site_atten |-> 6,
     geometric_spreading |-> << <<-2, 70>>, <<0, 130>>, <<-1, NoneNum>> >>,
     default_stress_drop |-> 150, site_amp |-> "campbell2003_ceus"]


\* floor(sqrt(n)).
RECURSIVE ISqrt(_)
ISqrt(n) ==
    IF n < 2 THEN n
    ELSE LET s == 2 * ISqrt(n \div 4)
         IN  IF (s + 1) * (s + 1) <= n THEN s + 1 ELSE s

(***************************************************************************)
(* Strings.  A region name is a sequence of one-letter strings, so that    *)
(* str.lower() can be modelled letter by letter.                           *)
(***************************************************************************)
LowerChar(c) ==
    CASE c = "W" -> "w" [] c = "U" -> "u" [] c = "S" -> "s"
      [] c = "C" -> "c" [] c = "E" -> "e" [] c = "A" -> "a"
      [] OTHER -> c

Lower(str) == [k \in 1..Len(str) |-> LowerChar(str[k])]

\* A duration is a number of seconds, or the two terms compute_duration
\* returns it as; the first is kept as a record too.
Seconds(d) == [seconds |-> d]
NoDuration == Seconds(NoneNum)

\* The state RvtMotion.__init__(freq, fourier_amp, duration) leaves.
RvtMotionInit(f, fa, dur) ==
    [freq |-> f, fourier_amp |-> fa, duration |-> dur,
     peak_calculator |-> "LiuPezeshk1999"]

(***************************************************************************)
(* SourceTheoryMotion.__init__(magnitude, distance, region, stress_drop).  *)
(* magnitude is in tenths, distance in km.  hypo_distance is rounded down  *)
(* to whole km; seismic_moment is kept as 100 * log10 of its value, which  *)
(* is exact: 100 * 1.5 * (magnitude + 10.7); corner_freq is kept as the    *)
(* three values it is computed from.  The result is the object, or the     *)
(* exception the constructor raises.                                       *)
(***************************************************************************)
RegionFields(self, table, stress_drop) ==
    [self EXCEPT !.shear_velocity = table.shear_velocity,
                 !.path_atten_coeff = table.path_atten_coeff,
                 !.path_atten_power = table.path_atten_power,
                 !.density = table.density,
                 !.site_atten = table.site_atten,
                 !.geometric_spreading = table.geometric_spreading,
                 !.stress_drop = IF Truthy(stress_drop) THEN stress_drop
                                 ELSE table.default_stress_drop,
                 !.site_amp = table.site_amp]

\* The object before the region branch: lines 114 and 138-140.
StmBlank(magnitude, distance, region) ==
    [freq |-> None, fourier_amp |-> None, duration |-> None,
     peak_calculator |-> "LiuPezeshk1999",
     magnitude |-> magnitude, distance |-> distance, region |-> region,
     shear_velocity |-> None, path_atten_coeff |-> None,
     path_atten_power |-> None, density |-> None, site_atten |-> None,
     geometric_spreading |-> None, stress_drop |-> None, site_amp |-> None,
     depth |-> None, hypo_distance |-> None, seismic_moment |-> None,
     corner_freq |-> None]

StmConstants(self) ==
    LET hypo == ISqrt(self.distance * self.distance + 8 * 8)
        moment == 15 * (self.magnitude + 107)
    IN  [self EXCEPT !.depth = 8,
                     !.hypo_distance = hypo,
                     !.seismic_moment = moment,
                     !.corner_freq = <<self.shear_velocity, self.stress_drop, moment>>]

\* A region test that compares the name as given.
SelectRegionCaseSensitive(region) ==
    IF region = NoRegion THEN "AttributeError"
    ELSE IF region = <<"w", "u", "s">> THEN "wus"
    ELSE IF region = <<"c", "e", "u", "s">> THEN "ceus"
    ELSE "NotImplementedError"

\* region.lower() and the if / elif / else on it.
SelectRegion(region) ==
    IF region = NoRegion THEN "AttributeError"
    ELSE LET r == Lower(region)
         IN  IF r = <<"w", "u", "s">> THEN "wus"
             ELSE IF r = <<"c", "e", "u", "s">> THEN "ceus"
             ELSE "NotImplementedError"

SourceTheoryMotionInit(magnitude, distance, region, stress_drop) ==
    LET sel == SelectRegion(region)
    IN  IF sel \notin {"wus", "ceus"}
        THEN [status |-> sel, self |-> None]
        ELSE LET blank == StmBlank(magnitude, distance, Lower(region))
                 table == IF sel = "wus" THEN WusTable ELSE CeusTable
             IN  [status |-> "ok",
                  self |-> StmConstants(RegionFields(blank, table, stress_drop))]

(***************************************************************************)
(* SourceTheoryMotion.compute_duration.  The path duration is in           *)
(* milliseconds (exact for the whole-km hypo_distance); the source         *)
(* duration 1 / corner_freq is kept as the corner_freq it inverts.         *)
(***************************************************************************)
compute_duration(self) ==
    LET h == self.hypo_distance
        path ==
          IF self.region = <<"w", "u", "s">>
          THEN 50 * h
          ELSE (IF 10 < h THEN 160 * (Min(h, 70) - 10) ELSE 0)
               + (IF 70 < h THEN -30 * (Min(h, 130) - 70) ELSE 0)
               + (IF 130 < h THEN 40 * (h - 130) ELSE 0)
    IN  [duration_source |-> self.corner_freq, duration_path |-> path]

(***************************************************************************)
(* SourceTheoryMotion.compute_fourier_amp(freq).  The spectrum is the      *)
(* product of the source, path and site components; it is kept as the      *)
(* values that determine its factors, the geometric attenuation (squared)  *)
(* computed as the code computes it.                                       *)
(***************************************************************************)
compute_fourier_amp(self, f) ==
    LET geo_atten == compute_geometric_spreading(self.hypo_distance,
                                                 self.geometric_spreading)
    IN  [self EXCEPT !.freq = f,
                     !.duration = compute_duration(self),
                     !.fourier_amp =
                        [geo_atten_sqr |-> geo_atten.gs_sqr,
                         corner_freq |-> self.corner_freq,
                         hypo_distance |-> self.hypo_distance,
                         site_amp |-> self.site_amp,
                         site_atten |-> self.site_atten]]


(***************************************************************************)
(* Arrays are functions on 0..(n-1), indexed as in the source.             *)
(***************************************************************************)
Arr(seq) == [k \in 0..(Len(seq) - 1) |-> seq[k + 1]]
Size(a) == Cardinality(DOMAIN a)

\* a[lo:hi], for 0 <= lo <= hi <= len(a).
Slice(a, lo, hi) == [k \in 0..(hi - lo - 1) |-> a[lo + k]]

\* The element a Python index, possibly negative, refers to.
PyIndex(n, k) == IF k < 0 THEN k + n ELSE k

(***************************************************************************)
(* Logarithms.  Amplitudes and frequencies enter np.log, np.interp and     *)
(* np.exp; the model keeps their logarithm to base 2, rounded to the       *)
(* nearest integer where it is computed from a linear value.               *)
(***************************************************************************)
RECURSIVE Log2Up(_, _)
Log2Up(n, d) == IF d <= n \div 2 THEN 1 + Log2Up(n, 2 * d) ELSE 0

RECURSIVE Log2Down(_, _)
Log2Down(n, d) == IF n >= d THEN 0 ELSE Log2Down(2 * n, d) - 1

\* floor(log2(n / d)), n, d > 0.
FloorLog2(n, d) == IF n >= d THEN Log2Up(n, d) ELSE Log2Down(n, d)

\* log2(n / d) rounded to the nearest integer: floor(log2(n / d) + 1/2).
RoundLog2(n, d) == FloorLog2(2 * n * n, d * d) \div 2

\* np.interp(x, xp, fp) at one point: linear between the knots, constant
\* outside them; xp increasing.  The quotient is rounded down.
Interp1(x, xp, fp) ==
    LET n == Size(xp)
    IN  IF x <= xp[0] THEN fp[0]
        ELSE IF x >= xp[n - 1] THEN fp[n - 1]
        ELSE LET k == CHOOSE k \in 0..(n - 2) : xp[k] <= x /\ x < xp[k + 1]
             IN  fp[k] + ((fp[k + 1] - fp[k]) * (x - xp[k])) \div (xp[k + 1] - xp[k])

(***************************************************************************)
(* The frequency grid.  NumFreq stands for the 512 points of np.logspace;  *)
(* oscillator frequencies are powers of two in Hz, so that their base-2    *)
(* logarithm, in the grid's unit of 1 / (NumFreq - 1) octave, is exact.    *)
(***************************************************************************)
NumFreq == 7

\* np.log of an oscillator frequency, in grid units.
LogOscFreq(fn) == (NumFreq - 1) * RoundLog2(fn, 1)

(***************************************************************************)
(* RvtMotion.compute_osc_resp and compute_peak.  The transfer function     *)
(* |-fn^2 / (f^2 - fn^2 - 2j damping fn f)| depends on f / fn and damping  *)
(* only; each of its values is kept as the pair that determines it, and    *)
(* an element of the product transfer_func * fourier_amp as the pair of    *)
(* its factors.  damping is in thousandths.                                *)
(***************************************************************************)
TransferFunc(fn, damping, f) ==
    [j \in DOMAIN f |-> [log_ratio |-> f[j] - LogOscFreq(fn), damping |-> damping]]

\* What compute_peak hands to self.peak_calculator.
compute_peak_args(self, transfer_func, fn, osc_damping) ==
    [duration |-> self.duration,
     freq |-> self.freq,
     fourier_amp |->
        IF transfer_func = NoArray THEN self.fourier_amp
        ELSE [j \in DOMAIN self.freq |-> <<transfer_func[j], self.fourier_amp[j]>>],
     osc_freq |-> fn,
     osc_damping |-> osc_damping]

\* compute_spec_accel(fn) handing the oscillator frequency of another call.
SpecAccelWrongFreq(self, fn, damping) ==
    compute_peak_args(self, TransferFunc(fn, damping, self.freq), 2 * fn, damping)

\* compute_spec_accel(fn), the closure of compute_osc_resp.
compute_spec_accel(self, fn, damping) ==
    compute_peak_args(self, TransferFunc(fn, damping, self.freq), fn, damping)

(***************************************************************************)
(* CompatibleRvtMotion.__init__: the computations of its steps.            *)
(*                                                                         *)
(* Units.  Oscillator frequencies are in Hz, responses (osc_resp_target,   *)
(* the peak calculator's values, rmse) in millionths, duration_rms in      *)
(* seconds, damping and sdof_factor in thousandths.  The seed amplitudes   *)
(* (the local fourier_amp of lines 292-313, here seed_amp) are linear;     *)
(* quotients and square roots are rounded down.                            *)
(***************************************************************************)
max_iterations == 30
tolerance == 5
initial_rmse == 1000000

\* An element of an array that np.empty_like left unassigned.
Unassigned == 0 - 1000000

\* numpy.empty_like: an array whose elements have not been assigned.
EmptyArray(n) == [k \in 0..(n - 1) |-> Unassigned]

RECURSIVE SumTo(_, _)
SumTo(a, k) == IF k < 0 THEN 0 ELSE a[k] + SumTo(a, k - 1)
Sum(a) == SumTo(a, Size(a) - 1)

\* osc_freq.argsort(): the order of increasing frequency (equal
\* frequencies in their given order).
ArgSort(a) ==
    LET n == Size(a)
    IN  CHOOSE p \in [0..(n - 1) -> 0..(n - 1)] :
          /\ \A x, y \in 0..(n - 1) : x # y => p[x] # p[y]
          /\ \A x, y \in 0..(n - 1) :
                x < y => \/ a[p[x]] < a[p[y]]
                         \/ a[p[x]] = a[p[y]] /\ p[x] < p[y]

\* sdof_factor = pi / (4 damping) - 1, in thousandths.
SdofFactor(damping) == 3141593 \div (4 * damping) - 1000

\* fa_sqr_cur of lines 299-301; 2 * peak_factor ** 2 is 25 / 2.
SeedFaSqr(duration_rms, resp, total, f, sdof_factor) ==
    (((2 * duration_rms * resp * resp) \div 25 - total) * 1000)
        \div (f * sdof_factor)

\* Lines 309-313 with the previous squared amplitude carried along.
TotalWithPrevious(i, total, fa_sqr_cur, fa_sqr_before, f, f_prev) ==
    IF i = 0 THEN (fa_sqr_cur * f) \div 2
    ELSE total + ((fa_sqr_cur - fa_sqr_before) * (f - f_prev)) \div 2

\* Lines 309-313: total after index i.
TotalUpdate(i, total, fa_sqr_cur, fa_sqr_prev, f, f_prev) ==
    IF i = 0 THEN (fa_sqr_cur * f) \div 2
    ELSE total + ((fa_sqr_cur - fa_sqr_prev) * (f - f_prev)) \div 2

\* np.log of a positive linear amplitude.  The inputs tried give positive
\* seed amplitudes; the logarithm of anything else is not modelled.
Log(a) == IF a > 0 THEN RoundLog2(a, 1) ELSE CHOOSE x \in {} : TRUE

\* np.logspace(np.log10(f_lo / 2), np.log10(2 f_hi), NumFreq), as base-2
\* logarithms in units of 1 / (NumFreq - 1) octave.
LogSpace(f_lo, f_hi) ==
    LET lo == RoundLog2(f_lo, 1) - 1
        hi == RoundLog2(f_hi, 1) + 1
    IN  [j \in 0..(NumFreq - 1) |-> lo * (NumFreq - 1) + j * (hi - lo)]

\* np.argwhere((osc_freq[0] < self.freq) & (self.freq < osc_freq[-1])).
Indices(f, osc) ==
    { j \in DOMAIN f : LogOscFreq(osc[0]) < f[j] /\ f[j] < LogOscFreq(osc[Size(osc) - 1]) }

SetMin(S) == CHOOSE x \in S : \A y \in S : x <= y
SetMax(S) == CHOOSE x \in S : \A y \in S : x >= y

\* np.interp(log_freq[first:last], log_osc_freq, values), by grid index.
InterpOnto(f, first, last, osc, values) ==
    LET log_osc_freq == [k \in DOMAIN osc |-> LogOscFreq(osc[k])]
    IN  [j \in first..(last - 1) |-> Interp1(f[j], log_osc_freq, values)]

\* _extrap with the slope of the two points taken in the other order.
ExtrapReversed(xi, x, y) ==
    y[0] + ((y[0] - y[1]) * (xi - x[0])) \div (x[1] - x[0])

\* _extrap(freq_i, freq, fourier_amp, None) at one frequency, in logarithms:
\* x and y are the two points' log frequencies and log amplitudes.
Extrap(xi, x, y) ==
    y[0] + ((y[1] - y[0]) * (xi - x[0])) \div (x[1] - x[0])

\* extrapolate(): first fourier_amp[0:first] from the points first and
\* first + 1, then fourier_amp[last:] from the points last - 2 and last - 1
\* of the array the first assignment left.  garbage is what a read of an
\* element not yet assigned yields.
Extrapolate(a, f, first, last, garbage) ==
    LET Read(b) == [k \in DOMAIN b |-> IF b[k] = Unassigned THEN garbage ELSE b[k]]
        low == [j \in DOMAIN a |->
                  IF j < first
                  THEN Extrap(f[j], Slice(f, first, first + 2),
                              Read(Slice(a, first, first + 2)))
                  ELSE a[j]]
    IN  [j \in DOMAIN a |->
           IF j >= last
           THEN Extrap(f[j], Slice(f, last - 2, last),
                       Read(Slice(low, last - 2, last)))
           ELSE low[j]]

(***************************************************************************)
(* np.convolve(window, fourier_amp, 'same') with the uniform window of     *)
(* window_len weights 1 / window_len: element n is the mean of the         *)
(* elements n + (window_len - 1) // 2 - k, k = 0 .. window_len - 1, those  *)
(* outside the array counting as 0.  The mean is taken on the linear       *)
(* amplitudes: each 2 ^ y relative to the largest of the window, with      *)
(* Mantissa binary digits, and the logarithm of the mean is rounded to     *)
(* the nearest integer.                                                    *)
(***************************************************************************)
Mantissa == 10

Convolve(a, window_len) ==
    LET n == Size(a)
        At(c, k) == c + (window_len - 1) \div 2 - k
        Win(c) == { At(c, k) : k \in 0..(window_len - 1) } \cap (0..(n - 1))
        Top(c) == SetMax({ a[j] : j \in Win(c) })
        Term(c, j) == IF j \notin 0..(n - 1) THEN 0
                      ELSE IF a[j] >= Top(c) - Mantissa
                      THEN Pow(2, Mantissa + a[j] - Top(c))
                      ELSE 0
        Total(c) == Sum([k \in 0..(window_len - 1) |-> Term(c, At(c, k))])
    IN  [c \in DOMAIN a |-> Top(c) - Mantissa + RoundLog2(Total(c), window_len)]

\* np.sqrt(np.mean((osc_resp_target - response) ** 2)), rounded down.
Rmse(target, response) ==
    ISqrt(Sum([k \in DOMAIN target |->
                 (target[k] - response[k]) * (target[k] - response[k])])
          \div Size(target))

\* The loop test with the pass count compared by <=.
WhileTestOffByOne(iterations, rmse) ==
    iterations <= max_iterations /\ tolerance < rmse

\* while self.iterations < max_iterations and tolerance < self.rmse
WhileTest(iterations, rmse) ==
    iterations < max_iterations /\ tolerance < rmse

(***************************************************************************)
(* State.                                                                  *)
(*   dist, coefs, gs       a call of compute_geometric_spreading and its   *)
(*                         outcome                                         *)
(*   stm_args, stm_status, stm, stm_duration                               *)
(*                         a SourceTheoryMotion: the constructor's         *)
(*                         arguments, its outcome, the object, and what    *)
(*                         compute_duration last returned                  *)
(*   freq, fourier_amp, duration, peak_calculator                          *)
(*                         the fields of an RvtMotion.  freq holds the     *)
(*                         base-2 logarithm of each frequency in units of  *)
(*                         1 / (NumFreq - 1) octave, fourier_amp the       *)
(*                         base-2 logarithm of each amplitude              *)
(*   osc_call              a call of compute_osc_resp: its arguments, the  *)
(*                         position k in osc_freq, the values collected    *)
(*   peak_log              the calls the peak calculator received from     *)
(*                         compute_osc_resp, each with what it returned    *)
(*                                                                         *)
(* The constructor of CompatibleRvtMotion, on the motion above:            *)
(*   args                  its arguments                                   *)
(*   pc, error             where it stands (start, seed, grid,             *)
(*                         extrapolate, loop_init, correct, reextrapolate, *)
(*                         smooth, evaluate, done, raised) and, once       *)
(*                         raised, the exception                           *)
(*   osc_freq, osc_resp_target, i, fa_sqr_cur, fa_sqr_prev, total,         *)
(*   sdof_factor, seed_amp, first, last, osc_resp                          *)
(*                         its locals; seed_amp is the local fourier_amp   *)
(*                         of the Vanmarcke recursion.  osc_resp is kept   *)
(*                         with the fourier_amp array it is the response   *)
(*                         of                                              *)
(*   iterations, rmse      the attributes it exposes                       *)
(*   rms_log, peak_calls   the peak calculator: the duration_rms requests  *)
(*                         it received, each with what it returned, and    *)
(*                         the number of peak requests it received         *)
(*   fa_sqr, totals, unassigned_read, rmse_eval                            *)
(*                         history: fa_sqr_cur and total after each index, *)
(*                         whether an unassigned array element was read,   *)
(*                         and the response and array rmse was computed    *)
(*                         from                                            *)
(***************************************************************************)
VARIABLES dist, coefs, gs, stm_args, stm_status, stm, stm_duration,
          freq, fourier_amp, duration, peak_calculator, osc_call, peak_log,
          args, pc, error, osc_freq, osc_resp_target, i, fa_sqr_cur,
          fa_sqr_prev, total, sdof_factor, seed_amp, first, last, osc_resp,
          iterations, rmse, rms_log, peak_calls,
          fa_sqr, totals, unassigned_read, rmse_eval

gsVars == <<dist, coefs, gs>>
stmVars == <<stm_args, stm_status, stm, stm_duration>>
motionVars == <<freq, fourier_amp, duration, peak_calculator>>
oscVars == <<osc_call, peak_log>>
seedVars == <<i, fa_sqr_cur, fa_sqr_prev, total, sdof_factor, seed_amp,
              rms_log, fa_sqr, totals>>
fitVars == <<first, last, osc_resp, iterations, rmse, peak_calls, rmse_eval>>
ctorVars == <<args, pc, error, osc_freq, osc_resp_target, seedVars, fitVars,
              unassigned_read>>
vars == <<gsVars, stmVars, motionVars, oscVars, ctorVars>>

Pending == [status |-> "pending", gs_sqr |-> None]

GsIdle == dist = 0 /\ coefs = <<>> /\ gs = Pending
StmIdle ==
    /\ stm_args = [magnitude |-> 0, distance |-> 0, region |-> NoRegion,
                   stress_drop |-> NoneNum]
    /\ stm_status = "idle"
    /\ stm = None
    /\ stm_duration = None
MotionIdle ==
    /\ freq = NoArray /\ fourier_amp = NoArray /\ duration = NoDuration
    /\ peak_calculator = None
OscIdle ==
    /\ osc_call = [osc_freq |-> <<>>, damping |-> 0, k |-> 0, out |-> <<>>,
                   returned |-> FALSE]
    /\ peak_log = <<>>
NoResponse == [value |-> NoArray, of |-> NoArray]
CtorLocalsInit ==
    /\ error = None
    /\ osc_freq = NoArray /\ osc_resp_target = NoArray
    /\ i = 0 /\ fa_sqr_cur = NoneNum /\ fa_sqr_prev = 0 /\ total = 0
    /\ sdof_factor = 0 /\ seed_amp = NoArray
    /\ first = NoneNum /\ last = NoneNum /\ osc_resp = NoResponse
    /\ iterations = NoneNum /\ rmse = NoneNum
    /\ rms_log = <<>> /\ peak_calls = 0
    /\ fa_sqr = <<>> /\ totals = <<>> /\ unassigned_read = FALSE
    /\ rmse_eval = NoResponse
CtorIdle ==
    /\ args = None /\ pc = "idle" /\ CtorLocalsInit

(***************************************************************************)
(* Geometric spreading as a program: one call on a distance and a segment  *)
(* list.                                                                   *)
(***************************************************************************)
MaxDist == 150

\* The segment lists tried: the two regional tables, the docstring's
\* [(1, None)], the two-segment list [(1, 40), (0.5, None)], the empty list,
\* lists whose first segment has no limit, and one whose last has a limit.
SegmentLists ==
    { WusTable.geometric_spreading,
      CeusTable.geometric_spreading,
      << <<2, NoneNum>> >>,
      << <<2, 40>>, <<1, NoneNum>> >>,
      << >>,
      << <<2, NoneNum>>, <<1, 40>> >>,
      << <<-2, NoneNum>>, <<0, 130>>, <<-1, NoneNum>> >>,
      << <<2, 0>>, <<1, 40>> >>,
      << <<2, 40>>, <<1, 100>> >> }

InitGS ==
    /\ dist \in 0..MaxDist
    /\ coefs \in SegmentLists
    /\ gs = Pending
    /\ StmIdle /\ MotionIdle /\ OscIdle /\ CtorIdle

CallGeometricSpreading ==
    /\ gs.status = "pending"
    /\ gs' = compute_geometric_spreading(dist, coefs)
    /\ UNCHANGED <<dist, coefs, stmVars, motionVars, oscVars, ctorVars>>

NextGS == CallGeometricSpreading

SpecGS == InitGS /\ [][NextGS]_vars

(***************************************************************************)
(* SourceTheoryMotion as a program: construction, then compute_duration    *)
(* and compute_fourier_amp on the constructed object.                      *)
(***************************************************************************)
Regions ==
    { <<a, b, c>> : a \in {"w", "W"}, b \in {"u", "U"}, c \in {"s", "S"} }
    \cup { <<a, b, c, d>> : a \in {"c", "C"}, b \in {"e", "E"},
                            c \in {"u", "U"}, d \in {"s", "S"} }
    \cup { <<"e", "u", "s">>, <<"W", "U">>, << >>, <<"c", "e", "u", "s", "a">>,
           <<"c", "e", "n", "a">>, NoRegion }

Magnitudes == {45, 65}
Distances == {0, 6, 15, 100, 140}
StressDrops == {NoneNum, 0, 80}
FreqArgs == { <<1, 10>> }

InitSource ==
    /\ stm_args \in [magnitude : Magnitudes, distance : Distances,
                      region : Regions, stress_drop : StressDrops]
    /\ stm_status = "new"
    /\ stm = None
    /\ stm_duration = None
    /\ GsIdle /\ MotionIdle /\ OscIdle /\ CtorIdle

Construct ==
    /\ stm_status = "new"
    /\ LET r == SourceTheoryMotionInit(stm_args.magnitude, stm_args.distance,
                                       stm_args.region, stm_args.stress_drop)
       IN  /\ stm_status' = r.status
           /\ stm' = r.self
    /\ UNCHANGED <<stm_args, stm_duration, gsVars, motionVars, oscVars, ctorVars>>

ComputeDuration ==
    /\ stm_status = "ok"
    /\ stm_duration' = compute_duration(stm)
    /\ UNCHANGED <<stm_args, stm_status, stm, gsVars, motionVars, oscVars, ctorVars>>

ComputeFourierAmp ==
    /\ stm_status = "ok"
    /\ \E f \in FreqArgs : stm' = compute_fourier_amp(stm, f)
    /\ UNCHANGED <<stm_args, stm_status, stm_duration, gsVars, motionVars, oscVars, ctorVars>>

NextSource == Construct \/ ComputeDuration \/ ComputeFourierAmp

SpecSource == InitSource /\ [][NextSource]_vars

(***************************************************************************)
(* compute_osc_resp as a program: a motion, and one call on a list of      *)
(* oscillator frequencies in the caller's order.  The peak calculator is   *)
(* outside this file: a call of it returns some value of PeakValues.       *)
(***************************************************************************)
PeakValues == {100, 101, 400}
Dampings == {50, 1000}

Self == [freq |-> freq, fourier_amp |-> fourier_amp, duration |-> duration,
         peak_calculator |-> peak_calculator]

OscFreqArgs ==
    { <<2>>, <<2, 4>>, <<4, 2>>, <<8, 2, 4>>, <<4, 4>>, <<16, 8, 2>>, << >> }

Motions ==
    { RvtMotionInit(Arr(<<0, 5, 10, 15>>), Arr(<<3, 4, 4, 2>>), Seconds(10)),
      RvtMotionInit(Arr(<<5, 10>>), Arr(<<0, 7>>), Seconds(3)) }

InitOsc ==
    /\ \E m \in Motions :
          /\ freq = m.freq /\ fourier_amp = m.fourier_amp
          /\ duration = m.duration /\ peak_calculator = m.peak_calculator
    /\ \E f \in OscFreqArgs, d \in Dampings :
          osc_call = [osc_freq |-> f, damping |-> d, k |-> 0, out |-> <<>>,
                      returned |-> FALSE]
    /\ peak_log = <<>>
    /\ GsIdle /\ StmIdle /\ CtorIdle

\* One element of the list comprehension: compute_spec_accel(f).
SpecAccel ==
    /\ ~osc_call.returned
    /\ osc_call.k < Len(osc_call.osc_freq)
    /\ LET fn == osc_call.osc_freq[osc_call.k + 1]
           a  == compute_spec_accel(Self, fn, osc_call.damping)
       IN  \E ret \in PeakValues :
             /\ peak_log' = Append(peak_log, [args |-> a, ret |-> ret])
             /\ osc_call' = [osc_call EXCEPT !.k = @ + 1, !.out = Append(@, ret)]
    /\ UNCHANGED <<gsVars, stmVars, motionVars, ctorVars>>

\* return np.array([...])
OscRespReturn ==
    /\ ~osc_call.returned
    /\ osc_call.k = Len(osc_call.osc_freq)
    /\ osc_call' = [osc_call EXCEPT !.returned = TRUE]
    /\ UNCHANGED <<gsVars, stmVars, motionVars, peak_log, ctorVars>>

NextOsc == SpecAccel \/ OscRespReturn

SpecOsc == InitOsc /\ [][NextOsc]_vars

(***************************************************************************)
(* CompatibleRvtMotion.__init__ as a program: the constructor on its       *)
(* arguments, one action per step of its body.                             *)
(*                                                                         *)
(* Two parts of it are outside this file.  self._compute_duration_rms is   *)
(* called at lines 296-297 and defined nowhere in it; it is taken to hand  *)
(* the request to the peak calculator's compute_duration_rms, which        *)
(* returns some value of DurationRmsValues.  The peak calculator answers   *)
(* the requests of one compute_osc_resp with some vector of PeakResponses, *)
(* and, being a function of its arguments, answers the requests of lines   *)
(* 403 and 408, which are equal, alike.                                    *)
(***************************************************************************)
DurationRmsValues == {10, 40}
GarbageAmps == {1, 8}
GarbageLogs == {0 - 3, 9}

PeakResponses(target) ==
    { target } \cup { [k \in DOMAIN target |-> v] : v \in PeakValues \ {101} }

\* The request of lines 296-297 with another method.
DurationRmsRequestOtherMethod(_osc_freq, damping) ==
    [osc_freq |-> _osc_freq, damping |-> damping, method |-> "liu_pezeshk"]

\* self._compute_duration_rms(_osc_freq, damping=damping,
\*                            method='boore_joyner')
DurationRmsRequest(_osc_freq, damping) ==
    [osc_freq |-> _osc_freq, damping |-> damping, method |-> "boore_joyner"]

\* Line 408 leaving the response of the previous array in place.
OscRespKept(previous, response, array) == previous

\* osc_resp = self.compute_osc_resp(osc_freq, damping): the response, and
\* the fourier_amp it is the response of.
OscRespRecomputed(previous, response, array) ==
    [value |-> response, of |-> array]

BaseArgs ==
    [osc_freq |-> Arr(<<2, 4>>), osc_resp_target |-> Arr(<<100, 100>>),
     duration |-> 10, damping |-> 50, magnitude |-> 65, distance |-> 15,
     stress_drop |-> NoneNum, region |-> NoRegion, window_len |-> NoneNum]

Windows == {NoneNum, 0, 1, 2, 3}

\* Arguments: two target points an octave apart under every damping and
\* window; two and three points further apart, given out of order; one
\* point and none; and the duration left to SourceTheoryMotion.
CtorArgs ==
    { [BaseArgs EXCEPT !.damping = d, !.window_len = w] :
        d \in Dampings, w \in Windows }
    \cup
    { [BaseArgs EXCEPT !.osc_freq = Arr(<<16, 2>>),
                       !.osc_resp_target = Arr(<<50, 400>>),
                       !.window_len = w] : w \in {NoneNum, 3} }
    \cup
    { [BaseArgs EXCEPT !.osc_freq = Arr(<<8, 2, 4>>),
                       !.osc_resp_target = Arr(<<100, 100, 100>>),
                       !.window_len = w] : w \in {NoneNum, 2} }
    \cup
    { [BaseArgs EXCEPT !.osc_freq = o[1], !.osc_resp_target = o[2]] :
        o \in { <<Arr(<<4>>), Arr(<<100>>)>>, <<Arr(<< >>), Arr(<< >>)>> } }
    \cup
    { [BaseArgs EXCEPT !.duration = dur, !.region = r] :
        dur \in {NoneNum, 0},
        r \in {NoRegion, <<"W", "u", "s">>, <<"c", "e", "u", "s">>,
               <<"e", "u", "s">>} }

Init ==
    /\ args \in CtorArgs
    /\ pc = "start"
    /\ CtorLocalsInit
    /\ GsIdle /\ StmIdle /\ MotionIdle /\ OscIdle

\* Lines 265-292: the base constructor, the ordering by frequency, the
\* duration, and the locals of the seed recursion.
Start ==
    /\ pc = "start"
    /\ LET base == RvtMotionInit(NoArray, NoArray, NoDuration)
           ind == ArgSort(args.osc_freq)
           made == SourceTheoryMotionInit(args.magnitude, args.distance,
                                          args.region, args.stress_drop)
       IN  /\ freq' = base.freq /\ fourier_amp' = base.fourier_amp
           /\ peak_calculator' = base.peak_calculator
           /\ osc_freq' = [k \in DOMAIN ind |-> args.osc_freq[ind[k]]]
           /\ osc_resp_target' = [k \in DOMAIN ind |-> args.osc_resp_target[ind[k]]]
           /\ IF Truthy(args.duration)
              THEN duration' = Seconds(args.duration) /\ pc' = "seed" /\ error' = None
              ELSE IF made.status = "ok"
              THEN /\ duration' = compute_duration(made.self)
                   /\ pc' = "seed" /\ error' = None
              ELSE /\ duration' = base.duration
                   /\ pc' = "raised" /\ error' = made.status
           /\ IF Truthy(args.duration) \/ made.status = "ok"
              THEN /\ fa_sqr_cur' = NoneNum /\ fa_sqr_prev' = 0 /\ total' = 0
                   /\ sdof_factor' = SdofFactor(args.damping)
                   /\ seed_amp' = EmptyArray(Size(args.osc_freq))
              ELSE UNCHANGED <<fa_sqr_cur, fa_sqr_prev, total, sdof_factor,
                               seed_amp>>
    /\ UNCHANGED <<gsVars, stmVars, oscVars, args, i, rms_log, fa_sqr, totals,
                   fitVars, unassigned_read>>

\* Lines 294-313: one turn of the for loop, on target point i.
SeedStep ==
    /\ pc = "seed"
    /\ i < Size(osc_freq)
    /\ \E duration_rms \in DurationRmsValues, garbage \in GarbageAmps :
         LET raw == SeedFaSqr(duration_rms, osc_resp_target[i], total,
                              osc_freq[i], sdof_factor)
             previous == seed_amp[PyIndex(Size(seed_amp), i - 1)]
             amp == IF raw < 0
                    THEN (IF previous = Unassigned THEN garbage ELSE previous)
                    ELSE ISqrt(raw)
             cur == IF raw < 0 THEN amp * amp ELSE raw
             tot == TotalUpdate(i, total, cur, fa_sqr_prev, osc_freq[i],
                                IF i = 0 THEN 0 ELSE osc_freq[i - 1])
         IN  /\ rms_log' = Append(rms_log,
                               [request |-> DurationRmsRequest(osc_freq[i],
                                                               args.damping),
                                ret |-> duration_rms])
             /\ seed_amp' = [seed_amp EXCEPT ![i] = amp]
             /\ fa_sqr_cur' = cur
             /\ total' = tot
             /\ fa_sqr' = Append(fa_sqr, cur)
             /\ totals' = Append(totals, tot)
             /\ unassigned_read' =
                   (unassigned_read \/ (raw < 0 /\ previous = Unassigned))
    /\ i' = i + 1
    /\ UNCHANGED <<gsVars, stmVars, motionVars, oscVars, args, pc, error,
                   osc_freq, osc_resp_target, fa_sqr_prev, sdof_factor, fitVars>>

\* Lines 317-336: the frequency grid, the range [first, last) inside the
\* target's frequencies, and the seed interpolated onto it.
Grid ==
    /\ pc = "seed"
    /\ i = Size(osc_freq)
    /\ IF Size(osc_freq) = 0
       THEN /\ pc' = "raised" /\ error' = "IndexError"
            /\ UNCHANGED <<freq, fourier_amp, first, last>>
       ELSE LET f == LogSpace(osc_freq[0], osc_freq[Size(osc_freq) - 1])
                indices == Indices(f, osc_freq)
            IN  /\ freq' = f
                /\ IF indices = {}
                   THEN /\ fourier_amp' = EmptyArray(NumFreq)
                        /\ pc' = "raised" /\ error' = "IndexError"
                        /\ UNCHANGED <<first, last>>
                   ELSE LET lo == SetMin(indices)
                            hi == SetMax(indices) + 1
                            inner == InterpOnto(f, lo, hi, osc_freq,
                                        [k \in DOMAIN seed_amp |-> Log(seed_amp[k])])
                        IN  /\ first' = lo /\ last' = hi
                            /\ fourier_amp' =
                                 [j \in DOMAIN f |->
                                    IF lo <= j /\ j < hi THEN inner[j]
                                    ELSE Unassigned]
                            /\ pc' = "extrapolate" /\ error' = None
    /\ UNCHANGED <<gsVars, stmVars, oscVars, duration, peak_calculator, args,
                   osc_freq, osc_resp_target, seedVars, osc_resp, iterations,
                   rmse, peak_calls, rmse_eval, unassigned_read>>

\* Line 366: extrapolate() on the array of lines 321-336.
InitialExtrapolate ==
    /\ pc = "extrapolate"
    /\ \E garbage \in GarbageLogs :
          fourier_amp' = Extrapolate(fourier_amp, freq, first, last, garbage)
    /\ pc' = "loop_init"
    /\ UNCHANGED <<gsVars, stmVars, oscVars, freq, duration, peak_calculator,
                   args, error, osc_freq, osc_resp_target, seedVars, fitVars,
                   unassigned_read>>

\* Lines 370-382: the loop's initial state, the response of the seed, and
\* the first test of the while condition.
LoopInit ==
    /\ pc = "loop_init"
    /\ iterations' = 0
    /\ rmse' = initial_rmse
    /\ \E response \in PeakResponses(osc_resp_target) :
          osc_resp' = [value |-> response, of |-> fourier_amp]
    /\ peak_calls' = peak_calls + Size(osc_freq)
    /\ pc' = IF WhileTest(0, initial_rmse) THEN "correct" ELSE "done"
    /\ UNCHANGED <<gsVars, stmVars, motionVars, oscVars, args, error, osc_freq,
                   osc_resp_target, seedVars, first, last, rmse_eval,
                   unassigned_read>>

\* Lines 388-390: the ratio correction over [first, last).
Correct ==
    /\ pc = "correct"
    /\ LET ratio == [k \in DOMAIN osc_freq |->
                       RoundLog2(osc_resp_target[k], osc_resp.value[k])]
           factor == InterpOnto(freq, first, last, osc_freq, ratio)
       IN  fourier_amp' = [j \in DOMAIN fourier_amp |->
                             IF first <= j /\ j < last
                             THEN fourier_amp[j] + factor[j]
                             ELSE fourier_amp[j]]
    /\ pc' = "reextrapolate"
    /\ UNCHANGED <<gsVars, stmVars, oscVars, freq, duration, peak_calculator,
                   args, error, osc_freq, osc_resp_target, seedVars, fitVars,
                   unassigned_read>>

\* Line 392: extrapolate() on the corrected array.
ReExtrapolate ==
    /\ pc = "reextrapolate"
    /\ \E garbage \in GarbageLogs :
          fourier_amp' = Extrapolate(fourier_amp, freq, first, last, garbage)
    /\ pc' = "smooth"
    /\ UNCHANGED <<gsVars, stmVars, oscVars, freq, duration, peak_calculator,
                   args, error, osc_freq, osc_resp_target, seedVars, fitVars,
                   unassigned_read>>

\* Lines 395-397: the running average, when a window length is set.
Smooth ==
    /\ pc = "smooth"
    /\ fourier_amp' = IF Truthy(args.window_len)
                      THEN Convolve(fourier_amp, args.window_len)
                      ELSE fourier_amp
    /\ pc' = "evaluate"
    /\ UNCHANGED <<gsVars, stmVars, oscVars, freq, duration, peak_calculator,
                   args, error, osc_freq, osc_resp_target, seedVars, fitVars,
                   unassigned_read>>

\* Lines 401-408 and the test of line 382: rmse from the response of the
\* array, the pass counted, the response recomputed.
Evaluate ==
    /\ pc = "evaluate"
    /\ \E response \in PeakResponses(osc_resp_target) :
          /\ rmse' = Rmse(osc_resp_target, response)
          /\ rmse_eval' = [value |-> response, of |-> fourier_amp]
          /\ osc_resp' = OscRespRecomputed(osc_resp, response, fourier_amp)
          /\ pc' = IF WhileTest(iterations + 1, Rmse(osc_resp_target, response))
                   THEN "correct" ELSE "done"
    /\ iterations' = iterations + 1
    /\ peak_calls' = peak_calls + 2 * Size(osc_freq)
    /\ UNCHANGED <<gsVars, stmVars, motionVars, oscVars, args, error, osc_freq,
                   osc_resp_target, seedVars, first, last, unassigned_read>>

Next ==
    \/ Start
    \/ SeedStep
    \/ Grid
    \/ InitialExtrapolate
    \/ LoopInit
    \/ Correct
    \/ ReExtrapolate
    \/ Smooth
    \/ Evaluate

Spec == Init /\ [][Next]_vars

(***************************************************************************)
(* C4.  compute_osc_resp returns one peak value per requested oscillator   *)
(* frequency, in the caller's order, each from exactly one call of the     *)
(* peak calculator with (duration, freq, transfer_func * fourier_amp, fn,  *)
(* damping), and leaves freq, fourier_amp, duration and peak_calculator    *)
(* as they were.                                                           *)
(***************************************************************************)
C4_Returned ==
    osc_call.returned =>
        /\ Len(osc_call.out) = Len(osc_call.osc_freq)
        /\ Len(peak_log) = Len(osc_call.osc_freq)
        /\ \A k \in 1..Len(osc_call.osc_freq) :
              LET fn == osc_call.osc_freq[k]
                  a  == peak_log[k].args
              IN  /\ osc_call.out[k] = peak_log[k].ret
                  /\ a.duration = duration
                  /\ a.freq = freq
                  /\ a.osc_freq = fn
                  /\ a.osc_damping = osc_call.damping
                  /\ \A j \in DOMAIN freq :
                        a.fourier_amp[j] =
                          << [log_ratio |-> freq[j] - LogOscFreq(fn),
                              damping |-> osc_call.damping],
                             fourier_amp[j] >>

C4_OscRespInOrder == [](C4_Returned) /\ [][UNCHANGED motionVars]_vars

C4_Witness ==
    /\ osc_call.returned
    /\ osc_call.osc_freq = <<8, 2, 4>>
    /\ osc_call.out = <<400, 100, 101>>

(***************************************************************************)
(* C2.  Original statement: geometric spreading fails with InvalidSegments *)
(* whenever the segment list is empty or a segment other than the last has *)
(* no limit, and for a distance > 0 returns a value only for a non-empty   *)
(* list whose non-final segments all have a limit.                         *)
(***************************************************************************)
MalformedSegments(c) ==
    c = <<>> \/ \E k \in 1..(Len(c) - 1) : c[k][2] = NoneNum

C2_InvalidSegmentsRaised ==
    gs.status # "pending" =>
        /\ MalformedSegments(coefs) => gs.status = "InvalidSegments"
        /\ (dist > 0 /\ gs.status = "returned") => ~MalformedSegments(coefs)

\* The list up to and including its first segment without a limit.
RECURSIVE GoverningPrefix(_, _)
GoverningPrefix(c, k) ==
    IF k > Len(c) THEN c
    ELSE IF ~Truthy(c[k][2]) THEN SubSeq(c, 1, k)
    ELSE GoverningPrefix(c, k + 1)

(***************************************************************************)
(* C2, amended.  Geometric spreading never fails with InvalidSegments: for *)
(* every distance > 0 and every segment list it returns a value; the empty *)
(* list gives 1, and a segment without a limit ends the evaluation, so the *)
(* value is that of the list cut after its first segment without a limit.  *)
(***************************************************************************)
C2_NoSegmentValidation ==
    gs.status # "pending" =>
        /\ gs.status # "InvalidSegments"
        /\ dist > 0 => gs.status = "returned"
        /\ (dist > 0 /\ coefs = <<>>) => gs.gs_sqr = One
        /\ dist > 0 =>
              gs.gs_sqr = GsLoop(dist, GoverningPrefix(coefs, 1), 1, 1, One).gs_sqr

C2_Witness ==
    /\ gs.status = "returned"
    /\ dist > 40
    /\ coefs = << <<2, NoneNum>>, <<1, 40>> >>

(***************************************************************************)
(* C9.  The geometric spreading evaluated with a region's own segment      *)
(* table is an attenuation: for every distance >= 1 km it is at most 1,    *)
(* and it does not grow with the distance.                                 *)
(***************************************************************************)
C9_RegionalSpreadingAttenuates ==
    (/\ gs.status = "returned"
     /\ dist >= 1
     /\ coefs \in {WusTable.geometric_spreading, CeusTable.geometric_spreading})
    => /\ FracLeq(gs.gs_sqr, One)
       /\ FracLeq(compute_geometric_spreading(dist + 1, coefs).gs_sqr, gs.gs_sqr)

(***************************************************************************)
(* C3.  A SourceTheoryMotion whose region, case-folded, is neither "wus"   *)
(* nor "ceus" fails at construction whatever the magnitude, distance and   *)
(* stress_drop, and no object with defaulted constants results; with "wus" *)
(* or "ceus" in any letter case construction succeeds with that region's   *)
(* constants.                                                              *)
(***************************************************************************)
IsRegion(region, name) ==
    /\ region # NoRegion
    /\ Len(region) = Len(name)
    /\ \A k \in 1..Len(name) : region[k] \in {name[k], LowerChar(name[k])}

TableSelected(self, table) ==
    /\ self.shear_velocity = table.shear_velocity
    /\ self.path_atten_coeff = table.path_atten_coeff
    /\ self.path_atten_power = table.path_atten_power
    /\ self.density = table.density
    /\ self.site_atten = table.site_atten
    /\ self.geometric_spreading = table.geometric_spreading
    /\ self.site_amp = table.site_amp
    /\ self.stress_drop \in {stm_args.stress_drop, table.default_stress_drop}

C3_RegionChecked ==
    stm_status \notin {"new", "idle"} =>
        LET wus  == IsRegion(stm_args.region, <<"W", "U", "S">>)
            ceus == IsRegion(stm_args.region, <<"C", "E", "U", "S">>)
        IN  /\ (~wus /\ ~ceus) =>
                  stm_status \in {"NotImplementedError", "AttributeError"} /\ stm = None
            /\ wus  => stm_status = "ok" /\ TableSelected(stm, WusTable)
            /\ ceus => stm_status = "ok" /\ TableSelected(stm, CeusTable)

C3_Witness ==
    /\ stm_status = "ok"
    /\ stm_args.region = <<"C", "e", "U", "s">>
    /\ stm.shear_velocity = 3600


(***************************************************************************)
(* C1.  The correction loop ends, and never by raising: it starts from     *)
(* iterations = 0 and rmse = 1.0, every pass adds exactly 1 to iterations, *)
(* the loop is left after a pass exactly when rmse <= tolerance or         *)
(* iterations = 30, and the finished object has 1 <= iterations <= 30 and  *)
(* (rmse <= tolerance or iterations = 30), whatever the peak calculator    *)
(* returns.  Termination is by a measure: a pass is only under way with    *)
(* iterations < 30, and every step of the loop lowers the number of steps  *)
(* the cap still allows, which is never negative.                          *)
(***************************************************************************)
C1_ExitState ==
    pc = "done" =>
       /\ 1 <= iterations /\ iterations <= 30
       /\ (rmse <= 5 \/ iterations = 30)

InLoop == pc \in {"correct", "reextrapolate", "smooth", "evaluate"}

StepsOfPassTaken ==
    CASE pc = "reextrapolate" -> 1
      [] pc = "smooth" -> 2
      [] pc = "evaluate" -> 3
      [] OTHER -> 0

StepsLeft == 4 * (30 - iterations) - StepsOfPassTaken

LogLinear(j, a, b) ==
    fourier_amp[a]
      + ((fourier_amp[b] - fourier_amp[a]) * (freq[j] - freq[a]))
           \div (freq[b] - freq[a])

FlanksExtrapolated ==
    \A j \in DOMAIN fourier_amp :
       /\ j < first => fourier_amp[j] = LogLinear(j, first, first + 1)
       /\ j >= last => fourier_amp[j] = LogLinear(j, last - 2, last - 1)

PassDone == pc \in {"correct", "done"} /\ iterations >= 1

NoAveraging == ~Truthy(args.window_len) \/ args.window_len = 1

InteriorKept ==
    \A j \in first..(last - 1) : fourier_amp[j]' = fourier_amp[j]

C6_TotalIntegratesIncrements ==
    \A k \in 1..Len(totals) :
       totals[k] =
          IF k = 1
          THEN TotalWithPrevious(0, 0, fa_sqr[1], 0, osc_freq[0], 0)
          ELSE TotalWithPrevious(k - 1, totals[k - 1], fa_sqr[k],
                                 fa_sqr[k - 1], osc_freq[k - 1], osc_freq[k - 2])

(***************************************************************************)
(* C7.  At every target index of the seed recursion, the first included,   *)
(* a negative fa_sqr makes the seed amplitude equal to the amplitude       *)
(* already assigned at the previous index and fa_sqr its square, and no    *)
(* seed amplitude comes from an element that was never assigned.  At       *)
(* index 0 the code reads fourier_amp[-1], which nothing has assigned.     *)
(***************************************************************************)
RawFaSqr(k) ==
    SeedFaSqr(rms_log[k].ret, osc_resp_target[k - 1],
              IF k = 1 THEN 0 ELSE totals[k - 1], osc_freq[k - 1], sdof_factor)

C7_FlattenedFromAssigned ==
    /\ ~unassigned_read
    /\ \A k \in 1..Len(fa_sqr) :
          RawFaSqr(k) < 0 =>
             /\ k > 1
             /\ seed_amp[k - 1] = seed_amp[k - 2]
             /\ fa_sqr[k] = seed_amp[k - 1] * seed_amp[k - 1]

(***************************************************************************)
(* C8.  The constructor asks the peak calculator for duration_rms exactly  *)
(* once per target point, with that point's oscillator frequency, the      *)
(* damping and method "boore_joyner", in order of increasing frequency,    *)
(* and all of these requests come before the first peak request.           *)
(***************************************************************************)
Ascending(a) == \A x, y \in DOMAIN a : x < y => a[x] <= a[y]

SameValues(a, b) ==
    \A v \in {a[k] : k \in DOMAIN a} \cup {b[k] : k \in DOMAIN b} :
       Cardinality({k \in DOMAIN a : a[k] = v})
          = Cardinality({k \in DOMAIN b : b[k] = v})

C10_ResponseOfRetainedArray ==
    /\ PassDone =>
          /\ rmse = Rmse(osc_resp_target, rmse_eval.value)
          /\ rmse_eval.of = fourier_amp
    /\ pc = "correct" => osc_resp.of = fourier_amp

C10_Witness ==
    /\ pc = "correct" /\ iterations >= 2
    /\ Truthy(args.window_len)
    /\ osc_resp.value # rmse_eval.value \/ rmse > 5
    /\ fourier_amp[first] # fourier_amp[first - 1]

=============================================================================
